---- MODULE Spec2Model ----
(***************************************************************************)
(* Model of enviroplus_exporter.py: the start-up device construction, the  *)
(* per-channel health state (the xActive / xCount globals), the eight      *)
(* get_* handlers and the poll loop of __main__.                           *)
(*                                                                         *)
(* Units.  The program computes with floats; the model keeps integers:     *)
(*   temperature gauge : fifths of a degree (the 5-sample CPU average)     *)
(*   gas gauges        : hundredths of a ppm (round(x, 2))                 *)
(*   O2 gauge          : thousandths of a percent, adc in hundredths of V  *)
(*   every other gauge : the driver's value as read                        *)
(* An uncaught Python exception ends the process: pc = "crashed".          *)
(***************************************************************************)
EXTENDS Integers, Sequences, FiniteSets, TLC

(* ------------------------------ bounds -------------------------------- *)
\* poll cycles explored (the while True loop is unbounded)
MaxCycles == 6
\* faults injected in one run: a device that fails to start, a read that
\* raises, a gas reading the conversion rejects
MaxFaults == 3

(* ------------------------- program constants -------------------------- *)
MAXCOUNT == 2
MINCOUNT == 0
DEFAULT_READING == 0

_base_ox == 108706
_base_red == 396941
_base_nh3 == 365918
\* tuning factors, in hundredths: 0.01, 2.0, 1.7
_ox_factor == 1
_red_factor == 200
_nh3_factor == 170

\* the channels, named by the prefix of their xActive / xCount globals
Channels == {"temp", "press", "hum", "light", "gas", "o2", "part", "co2"}
\* the channels polled only when args.enviro is false
Extended == {"gas", "o2", "part", "co2"}
\* the device objects built at start-up
Devices == {"ioe", "bme280", "pms5003", "device"}

GaugeNames == {"temperature", "pressure", "humidity", "oxidising", "reducing",
               "NH3", "CO2", "O2", "lux", "proximity", "PM1", "PM25", "PM10"}
HistNames == {"oxidising", "reducing", "NH3", "CO2", "O2", "PM1", "PM25", "PM10"}

GaugesOf(c) ==
    CASE c = "temp"  -> {"temperature"}
      [] c = "press" -> {"pressure"}
      [] c = "hum"   -> {"humidity"}
      [] c = "light" -> {"lux", "proximity"}
      [] c = "gas"   -> {"oxidising", "reducing", "NH3"}
      [] c = "o2"    -> {"O2"}
      [] c = "part"  -> {"PM1", "PM25", "PM10"}
      [] c = "co2"   -> {"CO2"}

HistsOf(c) == GaugesOf(c) \cap HistNames

(* --------------------------- driver inputs ---------------------------- *)
\* values the drivers hand back on a successful read
TempReadings == {20}
CpuReadings == {40, 45}
PressReadings == {1013}
HumReadings == {50}
LightReadings == {<<100, 3>>}
\* <<oxidising, reducing, nh3>> resistances; gas.read_all() reports 0 for a
\* resistance whose ADC voltage is 0 or whose divider divides by zero
GasReadings == {<<108706, 396941, 365918>>, <<108706, 0, 365918>>}
\* adc voltage after round(adc, 2), in hundredths of a volt
O2Readings == {200}
\* <<pm1, pm2.5, pm10>> cumulative ug/m3
PartReadings == {<<10, 15, 20>>}
Co2Readings == {400}
\* args.factor: 0 stands for "not given" (None), which `if factor:` skips
Factors == {0, 1}

VARIABLES
    pc,       \* where the process is: an init step, the channel whose turn is next, or "crashed"
    Active,   \* the xActive globals
    Count,    \* the xCount globals
    dev,      \* per device object: "unset" (not built yet), "ok", "unready" (built, handshake failed), "absent" (name never bound)
    gauge,    \* current value of every Gauge
    hist,     \* per Histogram: number of observations and the last value observed
    enviro,   \* args.enviro
    factor,   \* args.factor
    cycle,    \* completed passes of the while loop
    faults,   \* faults injected so far
    turn,     \* what the last handler call did
    idle,     \* per channel: completed inactive turns since a failure deactivated it, -1 otherwise
    scen,     \* per channel: position in the run "fresh channel, every read fails", 0 otherwise
    consec,   \* per channel: failure-path turns since its last successful turn or its activation
    sinceAct, \* per channel: failure-path turns since it last became active
    cpu_temps \* get_temperature's local list cpu_temps as its last compensated call left it

vars == <<pc, Active, Count, dev, gauge, hist, enviro, factor, cycle, faults, turn, idle, scen,
          consec, sinceAct, cpu_temps>>

NoTurn == [chan |-> "none", read |-> "none", path |-> "none", done |-> TRUE,
           reading |-> <<>>, resets |-> 0]

(* ------------------------- metrics registry --------------------------- *)
\* Gauge.set for the gauges named in vals
SetGauges(g, vals) ==
    [n \in DOMAIN g |-> IF n \in DOMAIN vals THEN vals[n] ELSE g[n]]

\* seeded fault: observe records the value without counting the observation
ObserveUncounted(h, vals) ==
    [n \in DOMAIN h |->
        IF n \in DOMAIN vals
        THEN [count |-> h[n].count, last |-> vals[n]]
        ELSE h[n]]

\* Histogram.observe for the histograms named in vals
Observe(h, vals) ==
    [n \in DOMAIN h |->
        IF n \in DOMAIN vals
        THEN [count |-> h[n].count + 1, last |-> vals[n]]
        ELSE h[n]]

\* seeded fault: the failing and inactive paths write nothing
ZeroWritesNothing(names) == [n \in {} |-> 0]

\* seeded fault: a failing or inactive path zeroes every channel's metrics
ZeroEverything(names) == [n \in GaugeNames |-> 0]

\* the value every failing or inactive path writes
Zero(names) == [n \in names |-> 0]

(* --------------------------- unit converters -------------------------- *)
\* round(n / d) for n >= 0, d > 0
RoundDiv(n, d) == (2 * n + d) \div (2 * d)

SumSeq(s) == s[1] + s[2] + s[3] + s[4] + s[5]

\* cpu_temps = [get_cpu_temperature()] * 5; cpu_temps = cpu_temps[1:] + [cpu_temp]
CpuTemps(cpu_first, cpu_temp) ==
    Tail([i \in 1..5 |-> cpu_first]) \o <<cpu_temp>>

\* get_temperature's compensation, in fifths of a degree
Compensate(raw, cpu_first, cpu_temp, f) ==
    IF f # 0
    THEN LET \* 5 * avg_cpu_temp
             total == SumSeq(CpuTemps(cpu_first, cpu_temp))
         IN  5 * raw - ((total - 5 * raw) \div f)
    ELSE 5 * raw

\* round((raw / base) * fac, 2) in hundredths; 0.0 on ZeroDivisionError
PpmLinear(raw, base, fac) ==
    IF base = 0 THEN 0 ELSE RoundDiv(raw * fac, base)

\* round(10 ** log10(raw / base) * fac, 2) in hundredths; 0.0 on ZeroDivisionError.
\* log10 of a ratio <= 0 raises ValueError instead: see calc_ppm_raises
PpmLog(raw, base, fac) ==
    IF base = 0 THEN 0 ELSE RoundDiv(raw * fac, base)

\* calc_ppm raises ValueError (math domain error): only ZeroDivisionError is caught
calc_ppm_raises(ox, red, nh3) ==
    \/ (_base_red # 0 /\ red <= 0)
    \/ (_base_nh3 # 0 /\ nh3 <= 0)

calc_ppm(ox, red, nh3) ==
    [oxidising |-> PpmLinear(ox, _base_ox, _ox_factor),
     reducing  |-> PpmLog(red, _base_red, _red_factor),
     NH3       |-> PpmLog(nh3, _base_nh3, _nh3_factor)]

\* ((adc * 0.212) / 2.0) * 100, in thousandths of a percent
O2Percent(adc) == adc * 106

\* PM1.set(pm_ug_per_m3(1.0)); PM25.set(pm_ug_per_m3(2.5)); PM10.set(pm_ug_per_m3(10))
PartGauges(r) == [PM1 |-> r[1], PM25 |-> r[2], PM10 |-> r[3]]

\* seeded fault: the histograms observe the cumulative values
PartObservedCumulative(r) == [PM1 |-> r[1], PM25 |-> r[2], PM10 |-> r[3]]

\* what PM1_HIST, PM25_HIST and PM10_HIST observe: the size bins
PartObserved(r) == [PM1 |-> r[1], PM25 |-> r[2] - r[1], PM10 |-> r[3] - r[2]]

\* seeded fault: reset_i2c does nothing
reset_i2c_skipped(done) == done

\* a call of reset_i2c: one more bus recovery (i2cdetect, then the pause) done
\* in this turn
reset_i2c(done) == done + 1

(* --------------------------- health tracker --------------------------- *)
\* seeded fault: the failure path leaves the counter where it was below MAXCOUNT - 1
FailCountStuck(n) == IF n + 1 >= MAXCOUNT THEN MAXCOUNT ELSE n

\* the failure path: xCount += 1; if xCount >= MAXCOUNT: xCount = MAXCOUNT; xActive = False
FailCount(n) == IF n + 1 >= MAXCOUNT THEN MAXCOUNT ELSE n + 1
\* seeded fault: the failure path clamps the counter but never clears the flag
FailActiveStays(a, n) == a

FailActive(a, n) == IF n + 1 >= MAXCOUNT THEN FALSE ELSE a

\* seeded fault: the cooldown drops the counter to MINCOUNT in one turn
CoolCountSkips(n) == MINCOUNT

\* seeded fault: the cooldown decrements without testing xCount > MINCOUNT
CoolCountUnguarded(n) == n - 1

\* the inactive path: if xCount > MINCOUNT: xCount -= 1; else: xCount = MINCOUNT; xActive = True
CoolCount(n) == IF n > MINCOUNT THEN n - 1 ELSE MINCOUNT
CoolActive(a, n) == IF n > MINCOUNT THEN a ELSE TRUE

(* ----------------------------- poll loop ------------------------------ *)
\* seeded fault: the loop calls the extended handlers whatever args.enviro is
NextChanIgnoresEnviro(c) ==
    CASE c = "temp"  -> "press"
      [] c = "press" -> "hum"
      [] c = "hum"   -> "light"
      [] c = "light" -> "gas"
      [] c = "gas"   -> "o2"
      [] c = "o2"    -> "part"
      [] c = "part"  -> "co2"
      [] c = "co2"   -> "temp"

\* the handler the while loop calls after c's
NextChan(c) ==
    CASE c = "temp"  -> "press"
      [] c = "press" -> "hum"
      [] c = "hum"   -> "light"
      [] c = "light" -> IF enviro THEN "temp" ELSE "gas"
      [] c = "gas"   -> "o2"
      [] c = "o2"    -> "part"
      [] c = "part"  -> "co2"
      [] c = "co2"   -> "temp"

EndsCycle(c) == c = "co2" \/ (c = "light" /\ enviro)

\* the handler returned: the loop goes on
Return(c) ==
    /\ pc' = NextChan(c)
    /\ cycle' = IF EndsCycle(c) THEN cycle + 1 ELSE cycle

\* the handler raised and nothing caught it: the process ends
Crash ==
    /\ pc' = "crashed"
    /\ cycle' = cycle

(* ------------------------ history of a channel ------------------------ *)
\* position in the run "channel active with xCount = MINCOUNT, then every read raises"
ScenAfterError(c) ==
    IF Count[c] = MINCOUNT THEN 1
    ELSE IF scen[c] = 1 THEN 2
    ELSE 0

ScenAfterIdle(c) == IF scen[c] \in 2..4 THEN scen[c] + 1 ELSE 0

IdleAfterIdle(c) == IF idle[c] >= 0 THEN idle[c] + 1 ELSE -1

(* --------------------- the three paths of a handler ------------------- *)
\* the read returned and the conversion went through (the try's else branch)
ReadOk(c, reading, gvals, hvals) ==
    /\ gauge' = SetGauges(gauge, gvals)
    /\ hist' = Observe(hist, hvals)
    /\ UNCHANGED <<Active, Count, faults>>
    /\ turn' = [chan |-> c, read |-> "ok", path |-> "ok", done |-> TRUE,
                reading |-> reading, resets |-> 0]
    /\ idle' = [idle EXCEPT ![c] = -1]
    /\ scen' = [scen EXCEPT ![c] = 0]
    /\ consec' = [consec EXCEPT ![c] = 0]
    /\ UNCHANGED sinceAct
    /\ Return(c)

\* the except branch: rd = "error" when the driver raised, "ok" when the read
\* returned and the conversion raised; rs = calls of reset_i2c
ExceptPath(c, rd, reading, rs) ==
    /\ gauge' = SetGauges(gauge, Zero(GaugesOf(c)))
    /\ hist' = Observe(hist, Zero(HistsOf(c)))
    /\ Count' = [Count EXCEPT ![c] = FailCount(Count[c])]
    /\ Active' = [Active EXCEPT ![c] = FailActive(Active[c], Count[c])]
    /\ faults' = faults + 1
    /\ turn' = [chan |-> c, read |-> rd, path |-> "fail", done |-> TRUE,
                reading |-> reading, resets |-> rs]
    /\ idle' = [idle EXCEPT ![c] = IF FailActive(Active[c], Count[c]) THEN -1 ELSE 0]
    /\ scen' = [scen EXCEPT ![c] = IF rd = "error" THEN ScenAfterError(c) ELSE 0]
    /\ consec' = [consec EXCEPT ![c] = consec[c] + 1]
    /\ sinceAct' = [sinceAct EXCEPT ![c] = sinceAct[c] + 1]
    /\ Return(c)

\* the else branch of `if xActive:`
InactivePath(c) ==
    /\ gauge' = SetGauges(gauge, Zero(GaugesOf(c)))
    /\ hist' = Observe(hist, Zero(HistsOf(c)))
    /\ Count' = [Count EXCEPT ![c] = CoolCount(Count[c])]
    /\ Active' = [Active EXCEPT ![c] = CoolActive(Active[c], Count[c])]
    /\ UNCHANGED faults
    /\ turn' = [chan |-> c, read |-> "none", path |-> "idle", done |-> TRUE,
                reading |-> <<>>, resets |-> 0]
    /\ idle' = [idle EXCEPT ![c] = IdleAfterIdle(c)]
    /\ scen' = [scen EXCEPT ![c] = ScenAfterIdle(c)]
    /\ consec' = [consec EXCEPT ![c] = IF Active'[c] THEN 0 ELSE consec[c]]
    /\ sinceAct' = [sinceAct EXCEPT ![c] = IF Active'[c] THEN 0 ELSE sinceAct[c]]
    /\ Return(c)

\* the try block names a global that start-up never bound: NameError, uncaught
NameErrorPath(c) ==
    /\ UNCHANGED <<gauge, hist, Active, Count, faults, idle, scen, consec, sinceAct>>
    /\ turn' = [chan |-> c, read |-> "nameerror", path |-> "none", done |-> FALSE,
                reading |-> <<>>, resets |-> 0]
    /\ Crash

(* ------------------------------ start-up ------------------------------ *)
Init ==
    /\ pc = "init_o2"
    /\ Active = [c \in Channels |-> TRUE]
    /\ Count = [c \in Channels |-> MINCOUNT]
    /\ dev = [d \in Devices |-> "unset"]
    /\ gauge = [n \in GaugeNames |-> DEFAULT_READING]
    /\ hist = [n \in HistNames |-> [count |-> 0, last |-> 0]]
    /\ enviro \in BOOLEAN
    /\ factor \in Factors
    /\ cycle = 0
    /\ faults = 0
    /\ turn = NoTurn
    /\ idle = [c \in Channels |-> -1]
    /\ scen = [c \in Channels |-> 0]
    /\ consec = [c \in Channels |-> 0]
    /\ sinceAct = [c \in Channels |-> 0]
    /\ cpu_temps = <<>>

\* module level: ioe = io.IOE(...); o2_pin = 12; ioe.set_adc_vref; ioe.set_mode
InitO2 ==
    /\ pc = "init_o2"
    /\ \/ /\ dev' = [dev EXCEPT !["ioe"] = "ok"]
          /\ UNCHANGED <<Active, Count, faults>>
       \/ /\ faults < MaxFaults
          /\ \E how \in {"absent", "unready"} : dev' = [dev EXCEPT !["ioe"] = how]
          /\ Active' = [Active EXCEPT !["o2"] = FALSE]
          /\ Count' = [Count EXCEPT !["o2"] = MAXCOUNT]
          /\ faults' = faults + 1
    /\ pc' = "init_bme"
    /\ UNCHANGED <<gauge, hist, enviro, factor, cycle, turn, idle, scen, consec, sinceAct, cpu_temps>>

\* module level: bme280 = BME280(i2c_dev=bus).  The except block unpacks the
\* scalar False into three names: TypeError, raised inside the handler
InitBME ==
    /\ pc = "init_bme"
    /\ \/ /\ dev' = [dev EXCEPT !["bme280"] = "ok"]
          /\ pc' = "init_pms"
          /\ UNCHANGED faults
       \/ /\ faults < MaxFaults
          /\ dev' = [dev EXCEPT !["bme280"] = "absent"]
          /\ pc' = "crashed"
          /\ faults' = faults + 1
    /\ UNCHANGED <<Active, Count, gauge, hist, enviro, factor, cycle, turn, idle, scen,
                   consec, sinceAct, cpu_temps>>

\* module level: pms5003 = PMS5003()
InitPMS ==
    /\ pc = "init_pms"
    /\ \/ /\ dev' = [dev EXCEPT !["pms5003"] = "ok"]
          /\ UNCHANGED <<Active, Count, faults>>
       \/ /\ faults < MaxFaults
          /\ dev' = [dev EXCEPT !["pms5003"] = "absent"]
          /\ Active' = [Active EXCEPT !["part"] = FALSE]
          /\ Count' = [Count EXCEPT !["part"] = MAXCOUNT]
          /\ faults' = faults + 1
    /\ pc' = "init_co2"
    /\ UNCHANGED <<gauge, hist, enviro, factor, cycle, turn, idle, scen, consec, sinceAct, cpu_temps>>

\* __main__: device = SCD4X(quiet=False); device.start_periodic_measurement()
InitCO2 ==
    /\ pc = "init_co2"
    /\ \/ /\ dev' = [dev EXCEPT !["device"] = "ok"]
          /\ UNCHANGED <<Active, faults>>
       \/ /\ faults < MaxFaults
          /\ \E how \in {"absent", "unready"} : dev' = [dev EXCEPT !["device"] = how]
          /\ Active' = [Active EXCEPT !["co2"] = FALSE]
          /\ faults' = faults + 1
    /\ pc' = "temp"
    /\ UNCHANGED <<Count, gauge, hist, enviro, factor, cycle, turn, idle, scen,
                   consec, sinceAct, cpu_temps>>

(* ------------------------------ handlers ------------------------------ *)
\* get_temperature(factor).  After the except block the code goes on to
\* `if factor:` and reads raw_temp, which the failed try never bound:
\* UnboundLocalError, uncaught.
get_temperature ==
    /\ pc = "temp"
    /\ cycle < MaxCycles
    /\ IF Active["temp"]
       THEN \/ \E raw \in TempReadings :
               \E cpu_first, cpu_temp \in (IF factor # 0 THEN CpuReadings ELSE {0}) :
                  /\ ReadOk("temp",
                            IF factor # 0 THEN <<raw, cpu_first, cpu_temp>> ELSE <<raw>>,
                            [temperature |-> Compensate(raw, cpu_first, cpu_temp, factor)],
                            <<>>)
                  /\ cpu_temps' = IF factor # 0 THEN CpuTemps(cpu_first, cpu_temp)
                                  ELSE cpu_temps
            \/ /\ faults < MaxFaults
               /\ gauge' = SetGauges(gauge, Zero({"temperature"}))
               /\ Count' = [Count EXCEPT !["temp"] = FailCount(Count["temp"])]
               /\ Active' = [Active EXCEPT !["temp"] = FailActive(Active["temp"], Count["temp"])]
               /\ faults' = faults + 1
               /\ turn' = [chan |-> "temp", read |-> "error", path |-> "fail", done |-> FALSE,
                           reading |-> <<>>, resets |-> reset_i2c(0)]
               /\ idle' = [idle EXCEPT !["temp"] =
                              IF FailActive(Active["temp"], Count["temp"]) THEN -1 ELSE 0]
               /\ scen' = [scen EXCEPT !["temp"] = ScenAfterError("temp")]
               /\ consec' = [consec EXCEPT !["temp"] = consec["temp"] + 1]
               /\ sinceAct' = [sinceAct EXCEPT !["temp"] = sinceAct["temp"] + 1]
               /\ UNCHANGED <<hist, cpu_temps>>
               /\ Crash
       ELSE \* TEMPERATURE.set(0); tempCount += 1; then the cooldown test
            LET bumped == Count["temp"] + 1 IN
            /\ gauge' = SetGauges(gauge, Zero({"temperature"}))
            /\ Count' = [Count EXCEPT !["temp"] = CoolCount(bumped)]
            /\ Active' = [Active EXCEPT !["temp"] = CoolActive(Active["temp"], bumped)]
            /\ turn' = [chan |-> "temp", read |-> "none", path |-> "idle", done |-> TRUE,
                        reading |-> <<>>, resets |-> 0]
            /\ idle' = [idle EXCEPT !["temp"] = IdleAfterIdle("temp")]
            /\ scen' = [scen EXCEPT !["temp"] = ScenAfterIdle("temp")]
            /\ consec' = [consec EXCEPT !["temp"] = IF Active'["temp"] THEN 0 ELSE consec["temp"]]
            /\ sinceAct' = [sinceAct EXCEPT !["temp"] = IF Active'["temp"] THEN 0 ELSE sinceAct["temp"]]
            /\ UNCHANGED <<hist, faults, cpu_temps>>
            /\ Return("temp")
    /\ UNCHANGED <<dev, enviro, factor>>

get_pressure ==
    /\ pc = "press"
    /\ cycle < MaxCycles
    /\ IF Active["press"]
       THEN \/ \E pressure \in PressReadings :
                  ReadOk("press", <<pressure>>, [pressure |-> pressure], <<>>)
            \/ /\ faults < MaxFaults
               /\ ExceptPath("press", "error", <<>>, reset_i2c(0))
       ELSE InactivePath("press")
    /\ UNCHANGED <<dev, enviro, factor, cpu_temps>>

get_humidity ==
    /\ pc = "hum"
    /\ cycle < MaxCycles
    /\ IF Active["hum"]
       THEN \/ \E humidity \in HumReadings :
                  ReadOk("hum", <<humidity>>, [humidity |-> humidity], <<>>)
            \/ /\ faults < MaxFaults
               /\ ExceptPath("hum", "error", <<>>, reset_i2c(0))
       ELSE InactivePath("hum")
    /\ UNCHANGED <<dev, enviro, factor, cpu_temps>>

\* get_lux and get_proximity share one try: either raising zeroes both gauges
get_light ==
    /\ pc = "light"
    /\ cycle < MaxCycles
    /\ IF Active["light"]
       THEN \/ \E r \in LightReadings :
                  ReadOk("light", r, [lux |-> r[1], proximity |-> r[2]], <<>>)
            \/ /\ faults < MaxFaults
               /\ ExceptPath("light", "error", <<>>, reset_i2c(0))
       ELSE InactivePath("light")
    /\ UNCHANGED <<dev, enviro, factor, cpu_temps>>

\* calc_ppm runs inside the try: its ValueError lands in get_gas's except
get_gas ==
    /\ pc = "gas"
    /\ cycle < MaxCycles
    /\ IF Active["gas"]
       THEN \/ \E r \in GasReadings :
                  IF calc_ppm_raises(r[1], r[2], r[3])
                  THEN faults < MaxFaults /\ ExceptPath("gas", "ok", r, reset_i2c(0))
                  ELSE LET ppm == calc_ppm(r[1], r[2], r[3])
                       IN  ReadOk("gas", r, ppm, ppm)
            \/ /\ faults < MaxFaults
               /\ ExceptPath("gas", "error", <<>>, reset_i2c(0))
       ELSE InactivePath("gas")
    /\ UNCHANGED <<dev, enviro, factor, cpu_temps>>

get_o2 ==
    /\ pc = "o2"
    /\ cycle < MaxCycles
    /\ IF Active["o2"]
       THEN IF dev["ioe"] = "absent"
            THEN NameErrorPath("o2")
            ELSE \/ \E adc \in O2Readings :
                       ReadOk("o2", <<adc>>, [O2 |-> O2Percent(adc)], [O2 |-> O2Percent(adc)])
                 \/ /\ faults < MaxFaults
                    /\ ExceptPath("o2", "error", <<>>, reset_i2c(0))
       ELSE InactivePath("o2")
    /\ UNCHANGED <<dev, enviro, factor, cpu_temps>>

\* the except block of get_particulates does not call reset_i2c
get_particulates ==
    /\ pc = "part"
    /\ cycle < MaxCycles
    /\ IF Active["part"]
       THEN IF dev["pms5003"] = "absent"
            THEN NameErrorPath("part")
            ELSE \/ \E r \in PartReadings :
                       ReadOk("part", r, PartGauges(r), PartObserved(r))
                 \/ /\ faults < MaxFaults
                    /\ ExceptPath("part", "error", <<>>, 0)
       ELSE InactivePath("part")
    /\ UNCHANGED <<dev, enviro, factor, cpu_temps>>

get_co2 ==
    /\ pc = "co2"
    /\ cycle < MaxCycles
    /\ IF Active["co2"]
       THEN IF dev["device"] = "absent"
            THEN NameErrorPath("co2")
            ELSE \/ \E co2 \in Co2Readings :
                       ReadOk("co2", <<co2>>, [CO2 |-> co2], [CO2 |-> co2])
                 \/ /\ faults < MaxFaults
                    /\ ExceptPath("co2", "error", <<>>, reset_i2c(0))
       ELSE InactivePath("co2")
    /\ UNCHANGED <<dev, enviro, factor, cpu_temps>>

(* --------------------------- specification ---------------------------- *)
Next ==
    \/ InitO2
    \/ InitBME
    \/ InitPMS
    \/ InitCO2
    \/ get_temperature
    \/ get_pressure
    \/ get_humidity
    \/ get_light
    \/ get_gas
    \/ get_o2
    \/ get_particulates
    \/ get_co2

Spec == Init /\ [][Next]_vars

\* the process runs every statement it reaches: no step is skipped forever
FairSpec == Spec /\ WF_vars(Next)

(* ------------------------------- claims ------------------------------- *)
\* the step is a call of c's handler
TurnOf(c) == pc = c /\ pc' # c

\* c's own handler has not ended the process
Polling(c) == ~(turn.chan = c /\ ~turn.done)

AllZero(c) == \A g \in GaugesOf(c) : gauge[g] = 0

\* the channels the loop calls
Polled(c) == c \notin Extended \/ ~enviro

\* the device a channel reads, "" for the two channels that build none
DeviceOf(c) ==
    CASE c \in {"temp", "press", "hum"} -> "bme280"
      [] c = "o2" -> "ioe"
      [] c = "part" -> "pms5003"
      [] c = "co2" -> "device"
      [] OTHER -> ""

StartFailed(c) == DeviceOf(c) # "" /\ dev[DeviceOf(c)] \in {"absent", "unready"}

\* C1: for every channel, from active with failureStreak = 0, the first of two
\* consecutive failed reads leaves the channel active with failureStreak = 1
\* (and still polled), and the second leaves it inactive with failureStreak = MAXCOUNT.
C1_TwoFailuresDeactivate ==
    \A c \in Channels :
        /\ scen[c] = 1 => (Active[c] /\ Count[c] = 1 /\ Polling(c))
        /\ scen[c] = 2 => (~Active[c] /\ Count[c] = MAXCOUNT /\ Polling(c))

\* C1 holds of the seven channels other than temperature
C1_OffTemperature ==
    \A c \in Channels \ {"temp"} :
        /\ scen[c] = 1 => (Active[c] /\ Count[c] = 1 /\ Polling(c))
        /\ scen[c] = 2 => (~Active[c] /\ Count[c] = MAXCOUNT /\ Polling(c))

\* C2 as stated: a channel deactivated by a failure is active again once it has
\* spent MAXCOUNT (= 2) turns inactive.
C2_ActiveAfterTwoCycles ==
    \A c \in Channels : idle[c] = MAXCOUNT => Active[c]

C2_Inv ==
    \A c \in Channels :
        /\ idle[c] \in -1..(MAXCOUNT + 1)
        /\ idle[c] \in 0..MAXCOUNT => (~Active[c] /\ Count[c] = MAXCOUNT - idle[c])
        /\ idle[c] = MAXCOUNT + 1 => (Active[c] /\ Count[c] = MINCOUNT)

C2_Step ==
    \A c \in Channels :
        TurnOf(c) =>
            /\ idle[c] \in 0..MAXCOUNT =>
                  /\ turn'.read = "none"
                  /\ \A g \in GaugesOf(c) : gauge'[g] = 0
                  /\ idle'[c] = idle[c] + 1
            /\ idle[c] = MAXCOUNT + 1 => turn'.read # "none"

\* C2 amended: a channel deactivated by a failure stays inactive through its next
\* MAXCOUNT + 1 (= 3) turns, each writing zero and attempting no read: MAXCOUNT
\* turns that decrement failureStreak to MINCOUNT, then one that sets active; the
\* turn after those attempts a read.
C2_CooldownTakesThreeTurns == []C2_Inv /\ [][C2_Step]_vars

\* C2 witness: a channel deactivated by a failure has just finished its third
\* inactive turn and is active again
C2_Witness ==
    \E c \in Channels :
        /\ idle[c] = MAXCOUNT + 1
        /\ Active[c]
        /\ turn.chan = c
        /\ turn.path = "idle"

C3_UnlessCrashed ==
    \A c \in Channels :
        []((~Active[c] /\ Polled(c) /\ cycle + MAXCOUNT + 2 <= MaxCycles)
              => <>(Active[c] \/ pc = "crashed"))

\* C4: a read that raises never ends the process: its handler returns to the loop
C4_FailedReadIsLocal ==
    turn.read = "error" => (turn.done /\ pc # "crashed")

\* the gauge values get_<c> writes for a reading
Converted(c, r) ==
    CASE c = "temp"  -> [temperature |->
                            IF Len(r) = 3 THEN Compensate(r[1], r[2], r[3], factor)
                            ELSE Compensate(r[1], 0, 0, 0)]
      [] c = "press" -> [pressure |-> r[1]]
      [] c = "hum"   -> [humidity |-> r[1]]
      [] c = "light" -> [lux |-> r[1], proximity |-> r[2]]
      [] c = "gas"   -> calc_ppm(r[1], r[2], r[3])
      [] c = "o2"    -> [O2 |-> O2Percent(r[1])]
      [] c = "part"  -> [PM1 |-> r[1], PM25 |-> r[2], PM10 |-> r[3]]
      [] c = "co2"   -> [CO2 |-> r[1]]

C5_Step ==
    \A c \in Channels :
        TurnOf(c) =>
            \A g \in GaugesOf(c) :
                IF turn'.path = "ok"
                THEN gauge'[g] = Converted(c, turn'.reading)[g]
                ELSE gauge'[g] = 0

\* C5: after a channel's turn each of its gauges holds the conversion of the
\* reading obtained in that turn, or zero when the turn took the failing or the
\* inactive path: never a value of an earlier turn.
C5_GaugeFreshOrZero == [][C5_Step]_vars

\* C5 witness: a channel whose gauge held a reading has failed and its gauges are zero
C5_Witness ==
    /\ turn.chan = "light"
    /\ turn.path = "fail"
    /\ Count["light"] = MAXCOUNT
    /\ AllZero("light")

\* C6: for a channel that is active with failureStreak = 0 and whose every read
\* raises, active at the following cycle boundaries is true (failure 1), false
\* (failure 2), false, false (cooldown), true (resume), and the gauge is 0 at
\* each of them.
C6_EndToEnd ==
    \A c \in Channels :
        /\ scen[c] >= 1 => (AllZero(c) /\ Polling(c))
        /\ scen[c] \in {1, 5} => Active[c]
        /\ scen[c] \in 2..4 => ~Active[c]

\* C6 holds of the seven channels other than temperature
C6_OffTemperature ==
    \A c \in Channels \ {"temp"} :
        /\ scen[c] >= 1 => (AllZero(c) /\ Polling(c))
        /\ scen[c] \in {1, 5} => Active[c]
        /\ scen[c] \in 2..4 => ~Active[c]

\* the scenario of C6 runs to its end: a channel has resumed after its cooldown
C6_Resumed == \E c \in Channels : scen[c] = 5 /\ Active[c] /\ AllZero(c)

C7_Step ==
    \A c \in Channels :
        (TurnOf(c) /\ Active[c] /\ turn'.read = "ok") =>
            (Active'[c] = Active[c] /\ Count'[c] = Count[c])

\* C7: a read that succeeds while the channel is active leaves the channel's
\* failureStreak and active flag as they were.
C7_SuccessLeavesHealth == [][C7_Step]_vars

C7_OffGas_Step ==
    \A c \in Channels \ {"gas"} :
        (TurnOf(c) /\ Active[c] /\ turn'.read = "ok") =>
            (Active'[c] = Active[c] /\ Count'[c] = Count[c])

\* C7 holds of the seven channels other than gas
C7_OffGas == [][C7_OffGas_Step]_vars

\* C8: when start-up is over, a channel whose device failed to start is inactive
\* with failureStreak = MAXCOUNT, and every other channel is active with
\* failureStreak = MINCOUNT.
C8_StartState ==
    (turn = NoTurn /\ pc \in {"temp", "crashed"}) =>
        \A c \in Channels :
            IF StartFailed(c)
            THEN ~Active[c] /\ Count[c] = MAXCOUNT
            ELSE Active[c] /\ Count[c] = MINCOUNT

\* C9: with every device absent at start-up the process is not ended: it reaches
\* the poll loop and stays in it.
C9_NothingIsFatal ==
    (\A d \in Devices : dev[d] # "ok") => pc # "crashed"

\* C10: every channel's failureStreak lies in MINCOUNT..MAXCOUNT in every
\* reachable state, and so does the value it takes inside the failure path
\* between `+= 1` and the clamp (an active channel's counter is below MAXCOUNT).
C10_CountInRange ==
    \A c \in Channels :
        /\ Count[c] \in MINCOUNT..MAXCOUNT
        /\ Active[c] => Count[c] + 1 \in MINCOUNT..MAXCOUNT

\* C10 witness: a failure has clamped a channel's counter at MAXCOUNT
C10_Witness ==
    \E c \in Channels :
        /\ turn.chan = c
        /\ turn.path = "fail"
        /\ Count[c] = MAXCOUNT
        /\ ~Active[c]

\* the program has left start-up
InLoop == pc \in Channels \cup {"crashed"}

\* C11 as stated: with the reduced sensor set, the gas, O2, particulate and CO2
\* channels keep active = true and failureStreak = MINCOUNT in every state of the
\* run, and none of them ever has a turn.
C11_KeepInitialActiveValues ==
    enviro =>
        \A c \in Extended :
            /\ Active[c]
            /\ Count[c] = MINCOUNT
            /\ turn.chan # c

C11_Inv ==
    enviro => (pc \notin Extended /\ turn.chan \notin Extended)

C11_Step ==
    (enviro /\ InLoop) =>
        /\ \A c \in Extended : Active'[c] = Active[c] /\ Count'[c] = Count[c]
        /\ \A g \in UNION {GaugesOf(c) : c \in Extended} : gauge'[g] = gauge[g]
        /\ hist' = hist

\* C11: with the reduced sensor set, the loop never gives the gas, O2,
\* particulate or CO2 channel a turn and never reads their drivers, and from the
\* end of start-up on their active flags, failure counters, gauges and
\* histograms keep the values start-up gave them (a channel whose device could
\* not be built stays inactive for the whole run).
C11_LoopLeavesExtendedAlone == []C11_Inv /\ [][C11_Step]_vars

\* C11 witness: two reduced cycles done, O2 still as the failed start-up left it
C11_Witness ==
    /\ enviro
    /\ cycle >= 2
    /\ pc = "temp"
    /\ ~Active["o2"]
    /\ Count["o2"] = MAXCOUNT
    /\ Active["gas"]
    /\ hist["O2"].count = 0

\* C12 as stated: while a channel is active its failureStreak is the number of
\* failure-path turns in a row since its last successful read or its activation,
\* and a channel that a failure has just deactivated had MAXCOUNT of them in a
\* row with no success in between.
C12_CountsConsecutiveFailures ==
    \A c \in Channels :
        /\ Active[c] => Count[c] = consec[c]
        /\ idle[c] = 0 => consec[c] = MAXCOUNT

\* C12: while a channel is active its failureStreak is the number of its turns
\* that took the failure path since it last became active, successful turns in
\* between included and not resetting it; a channel that a failure has just
\* deactivated has had MAXCOUNT such turns since it became active.
C12_CountsFailuresSinceActivation ==
    \A c \in Channels :
        /\ Active[c] => Count[c] = sinceAct[c]
        /\ idle[c] = 0 => sinceAct[c] = MAXCOUNT

\* C12 witness: a failure, a success, then the failure that deactivates
C12_Witness ==
    \E c \in Channels :
        /\ turn.chan = c
        /\ turn.path = "fail"
        /\ ~Active[c]
        /\ idle[c] = 0
        /\ consec[c] = 1
        /\ sinceAct[c] = MAXCOUNT

\* c's turn left its gauges at zero and observed zero in its histograms
ZeroTurn(c) ==
    /\ \A g \in GaugesOf(c) : gauge'[g] = 0
    /\ \A h \in HistsOf(c) : hist'[h] = [count |-> hist[h].count + 1, last |-> 0]

C13_Step ==
    \A c \in Channels :
        TurnOf(c) =>
            /\ turn'.read \in {"ok", "error"} <=> Active[c]
            /\ ~Active[c] => ZeroTurn(c)

\* C13: in every turn of every channel the driver read is invoked if and only
\* if the channel is active at the start of the turn, and an inactive channel's
\* turn reads nothing, sets its gauges to zero and observes zero in its histograms.
C13_ReadIffActive == [][C13_Step]_vars

C13_UnlessUnbound_Step ==
    \A c \in Channels :
        (TurnOf(c) /\ turn'.read # "nameerror") =>
            /\ turn'.read \in {"ok", "error"} <=> Active[c]
            /\ ~Active[c] => ZeroTurn(c)

\* the same property over the turns that do not evaluate an unbound device name
C13_UnlessUnbound == [][C13_UnlessUnbound_Step]_vars

\* C14 as stated: in every turn of every channel the bus recovery is performed
\* exactly once if the read failed, and not at all if the read succeeded or the
\* channel is inactive.
C14_Step_AllChannels ==
    \A c \in Channels :
        TurnOf(c) =>
            turn'.resets = (IF turn'.read = "error" THEN 1 ELSE 0)

C14_Step ==
    \A c \in Channels :
        TurnOf(c) =>
            turn'.resets = (IF turn'.path = "fail" /\ c # "part" THEN 1 ELSE 0)

C15_Step ==
    LET r == turn'.reading
    IN  (TurnOf("gas") /\ turn'.read = "ok" /\ (r[2] <= 0 \/ r[3] <= 0)) =>
            /\ turn'.path = "ok"
            /\ Count'["gas"] = Count["gas"]
            /\ Active'["gas"] = Active["gas"]
            /\ gauge'["oxidising"] = PpmLinear(r[1], _base_ox, _ox_factor)
            /\ gauge'["reducing"] =
                   (IF r[2] <= 0 THEN 0 ELSE PpmLog(r[2], _base_red, _red_factor))
            /\ gauge'["NH3"] =
                   (IF r[3] <= 0 THEN 0 ELSE PpmLog(r[3], _base_nh3, _nh3_factor))

\* C15: a gas reading whose reducing or ammonia value is 0 (a non-positive
\* argument to log10) is converted with 0.0 for that gas only: the turn takes
\* the success path, the other gases get their converted values, and the gas
\* channel's failureStreak and active flag are unchanged.
C15_DomainErrorCaughtAtConversion == [][C15_Step]_vars

C16_Step ==
    LET r == turn'.reading
    IN  (TurnOf("part") /\ turn'.path = "ok") =>
            /\ gauge'["PM1"] = r[1]
            /\ gauge'["PM25"] = r[2]
            /\ gauge'["PM10"] = r[3]
            /\ hist'["PM1"] = [count |-> hist["PM1"].count + 1, last |-> r[1]]
            /\ hist'["PM25"] = [count |-> hist["PM25"].count + 1, last |-> r[2] - r[1]]
            /\ hist'["PM10"] = [count |-> hist["PM10"].count + 1, last |-> r[3] - r[2]]

\* C16: a successful particulate read of cumulative values pm1, pm25, pm10 sets
\* the PM1, PM25 and PM10 gauges to pm1, pm25 and pm10, and the PM1, PM2.5 and
\* PM10 histograms observe pm1, pm25 - pm1 and pm10 - pm25.
C16_GaugesCumulativeHistogramsBinned == [][C16_Step]_vars

\* C16 witness: the reading 10, 15, 20 has been published: gauges 10, 15, 20,
\* observations 10, 5, 5
C16_Witness ==
    /\ turn.chan = "part"
    /\ turn.path = "ok"
    /\ turn.reading = <<10, 15, 20>>
    /\ gauge["PM10"] = 20
    /\ hist["PM1"].last = 10
    /\ hist["PM25"].last = 5
    /\ hist["PM10"].last = 5

C17_Step ==
    LET r == turn'.reading
        \* the window the claim describes: the previous call's list, oldest
        \* sample dropped, this cycle's sample appended
        window == IF cpu_temps = <<>> THEN CpuTemps(r[2], r[3])
                  ELSE Tail(cpu_temps) \o <<r[3]>>
    IN  (TurnOf("temp") /\ turn'.path = "ok" /\ factor # 0) =>
            /\ cpu_temps' = window
            /\ gauge'["temperature"] = 5 * r[1] - ((SumSeq(window) - 5 * r[1]) \div factor)

\* C17: with a nonzero factor, the CPU temperature in the compensated
\* temperature of a cycle is the average of a window of the last 5 per-cycle
\* CPU samples that is kept from one cycle to the next: seeded with five copies
\* of the first sample in the first cycle, and in every later cycle the previous
\* window with its oldest sample dropped and this cycle's sample appended.
C17_CpuWindowKeptAcrossCycles == [][C17_Step]_vars

C18_Inv ==
    \A c \in Channels : Active[c] => Count[c] < MAXCOUNT

C18_Step ==
    \A c \in Channels :
        /\ (TurnOf(c) /\ ~Active[c] /\ Active'[c]) =>
               (Count'[c] = MINCOUNT /\ sinceAct'[c] = 0)
        /\ (TurnOf(c) /\ Active[c] /\ ~Active'[c]) =>
               (Count'[c] = MAXCOUNT /\ sinceAct'[c] = MAXCOUNT)

\* C18: in every state, cycle boundaries included, an active channel has
\* failureStreak < MAXCOUNT; the cooldown turn that re-activates a channel
\* leaves its failureStreak at MINCOUNT, and a turn that deactivates a channel
\* is its MAXCOUNT-th failure since it became active.
C18_ActiveBelowMaxcount == []C18_Inv /\ [][C18_Step]_vars

\* C18 witness: a channel deactivated by failures has just been re-activated
\* by its cooldown
C18_Witness ==
    \E c \in Channels :
        /\ turn.chan = c
        /\ turn.path = "idle"
        /\ idle[c] > 0
        /\ Active[c]
        /\ Count[c] = MINCOUNT
        /\ pc \in Channels

C19_Step ==
    \A c \in Channels :
        TurnOf(c) =>
            /\ \A d \in Channels \ {c} :
                   /\ Active'[d] = Active[d]
                   /\ Count'[d] = Count[d]
                   /\ \A g \in GaugesOf(d) : gauge'[g] = gauge[g]
                   /\ \A h \in HistsOf(d) : hist'[h] = hist[h]
            /\ dev' = dev

\* C19: a channel's turn (success, failure or cooldown) leaves the active flag,
\* the failure counter, the gauges and the histograms of every other channel
\* unchanged, temperature, pressure and humidity, which share one device,
\* included.
C19_TurnTouchesOwnChannelOnly == [][C19_Step]_vars

\* C19 witness: pressure has failed while temperature and humidity, on the same
\* device, still show their last readings and are active with no failure counted
C19_Witness ==
    /\ turn.chan = "press"
    /\ turn.path = "fail"
    /\ cycle >= 1
    /\ gauge["pressure"] = 0
    /\ gauge["temperature"] # 0
    /\ gauge["humidity"] # 0
    /\ Active["temp"] /\ Count["temp"] = MINCOUNT
    /\ Active["hum"] /\ Count["hum"] = MINCOUNT

\* what c's histograms observe on a successful read of r
ObservedOnSuccess(c, r) ==
    IF c = "part" THEN PartObserved(r) ELSE Converted(c, r)

C20_Inv ==
    (~enviro /\ pc = "temp") =>
        \A h \in HistNames : hist[h].count = cycle

C20_Step ==
    /\ \A h \in HistNames : hist'[h].count >= hist[h].count
    /\ \A c \in Extended :
           (TurnOf(c) /\ turn'.done) =>
               \A h \in HistsOf(c) :
                   /\ hist'[h].count = hist[h].count + 1
                   /\ hist'[h].last =
                          (IF turn'.path = "ok"
                           THEN ObservedOnSuccess(c, turn'.reading)[h]
                           ELSE 0)

\* C20: every completed turn of gas, O2, particulates and CO2 adds exactly one
\* observation to each of the channel's histograms, the converted value on
\* success and zero on failure or while inactive; with the extended sensor set
\* every histogram's observation count is n at the boundary after n completed
\* cycles, and no count ever decreases.
C20_OneObservationPerTurn == []C20_Inv /\ [][C20_Step]_vars

\* C20 witness: three cycles done with a failure and a cooldown among them,
\* every histogram at three observations
C20_Witness ==
    /\ ~enviro
    /\ pc = "temp"
    /\ cycle = 3
    /\ \A h \in HistNames : hist[h].count = 3
    /\ ~Active["o2"]
    /\ sinceAct["gas"] > 0
    /\ hist["PM25"].last = 5

====
